---- MODULE Spec2Model ----
(***************************************************************************)
(* State-machine model of custom_components/bj_led/bjled.py: one           *)
(* BJLEDInstance (a BLE light session) on one asyncio event loop.          *)
(*                                                                         *)
(* A step of the model is what one task or callback runs between two       *)
(* suspension points of the event loop (asyncio is cooperative: code       *)
(* between two awaits that really suspend is atomic).  The suspension      *)
(* points of the source are: waiting for _connect_lock, establish_         *)
(* connection, write_gatt_char, client.disconnect and asyncio.sleep.       *)
(***************************************************************************)
EXTENDS Integers, FiniteSets, Sequences, TLC

(* ------------------------------ bounds -------------------------------- *)
NCallers == 2
IdleDelay == 1
MaxTimed == 1
MaxHandles == 3
MaxCount == 2

(* ------------------------- program constants -------------------------- *)
DEFAULT_ATTEMPTS == 3

\* Task 0 is the observed caller: its calls keep their attempt counter and
\* their outcome.  Tasks 1..NCallers are the concurrent callers.
Observed == 0
Callers == 1..NCallers
Tasks == {Observed} \cup Callers
\* The lock's waiter that is an _execute_timed_disconnect task.
TimedTask == -1

\* Values of the delay argument of __init__: None is <<>>, an int d is <<d>>.
Delays == {<<>>, <<0>>, <<-1>>, <<IdleDelay>>}

\* Exceptions of the transport, by the except clause of the retry wrapper
\* that catches them: BleakNotFoundError, BleakDBusError (RETRY_BACKOFF_
\* EXCEPTIONS), and the rest of BLEAK_RETRY_EXCEPTIONS.
Errors == {"NotFound", "DBus", "Bleak"}

\* The operations wrapped by retry_bluetooth_connection_error that write.
WriteOps == {"turn_on", "turn_off", "set_rgb_color", "set_effect"}
WrappedOps == WriteOps \cup {"update"}

\* EFFECT_MAP: effect name -> effect code.
EFFECT_MAP ==
    [n \in {"colorloop", "red_fade", "green_fade", "blue_fade", "yellow_fade",
            "cyan_fade", "purple_fade", "white_fade", "rg_cross_fade",
            "rb_cross_fade", "gb_cross_fade", "colorstrobe", "red_strobe",
            "green_strobe", "blue_strobe", "yellow_strobe", "cyan_strobe",
            "purple_strobe", "white_strobe", "colorjump"} |->
       CASE n = "colorloop" -> 0 [] n = "red_fade" -> 1
         [] n = "green_fade" -> 2 [] n = "blue_fade" -> 3
         [] n = "yellow_fade" -> 4 [] n = "cyan_fade" -> 5
         [] n = "purple_fade" -> 6 [] n = "white_fade" -> 7
         [] n = "rg_cross_fade" -> 8 [] n = "rb_cross_fade" -> 9
         [] n = "gb_cross_fade" -> 10 [] n = "colorstrobe" -> 12
         [] n = "red_strobe" -> 13 [] n = "green_strobe" -> 14
         [] n = "blue_strobe" -> 15 [] n = "yellow_strobe" -> 16
         [] n = "cyan_strobe" -> 17 [] n = "purple_strobe" -> 18
         [] n = "white_strobe" -> 19 [] n = "colorjump" -> 20]

EFFECT_LIST == DOMAIN EFFECT_MAP

\* Arguments the callers pass: two colours, one known and one unknown effect.
Colours == {"red", "blue"}
EffectArgs == {"colorjump", "bogus"}

ArgsOf(o) ==
    CASE o = "set_rgb_color" -> Colours
      [] o = "set_effect" -> EffectArgs
      [] OTHER -> {"-"}

(* ------------------------------- state -------------------------------- *)
VARIABLES
    delay,       \* self._delay
    client,      \* self._client is not None
    link,        \* is_connected of the client object created last
    writeUuid,   \* self._write_uuid is not None
    expected,    \* self._expected_disconnect
    isOn,        \* self._is_on: "None", "True", "False"
    rgb,         \* self._rgb_color: "None" or a colour
    effect,      \* self._effect: "None" or an effect name
    lock,        \* self._connect_lock.locked()
    waiters,     \* the lock's FIFO of waiting tasks (Tasks, TimedTask)
    timerRef,    \* self._disconnect_timer: 0 (None) or a handle id
    timers,      \* the loop's scheduled, uncancelled handles [id, rem]
    task,        \* per caller: the call it runs and where it is suspended
    tdNew,       \* _execute_timed_disconnect tasks created, not yet started
    tdIn,        \* such tasks awaiting client.disconnect()
    tdExc,       \* such tasks in which client.disconnect() has raised
    connCalls,   \* establish_connection calls since the link was last down
    connFailed,  \* one of those calls raised
    nominal,     \* no stop(), link loss or transport error so far
    cachedServices, \* self._cached_services is not None
    brightness,  \* self._brightness: <<>> (None) or <<n>>
    log,         \* what _disconnected logged in the step just taken, if it ran
    inp,         \* the call of the encoding specification, with its arguments
    ret,         \* how that call ended, and what it returned
    wire         \* the packets that call passed to write_gatt_char

sess == <<delay, client, link, writeUuid, expected, isOn, rgb, effect>>
\* The fields and observations the connection actions leave alone.
encv == <<brightness, inp, ret, wire>>
loopv == <<lock, waiters, timerRef, timers, tdNew, tdIn, tdExc>>
hist == <<connCalls, connFailed, nominal>>
vars == <<sess, loopv, task, hist, cachedServices, log, encv>>

Min(a, b) == IF a < b THEN a ELSE b
Max(a, b) == IF a > b THEN a ELSE b

\* No call made yet, nothing returned yet.
NoCall == [op |-> "none", col |-> <<>>, val |-> <<>>, name |-> "-"]
NoRet == [st |-> "none", val |-> 0]

IdleTask == [pc |-> "idle", op |-> "none", arg |-> "-", att |-> 0,
             fails |-> 0, err |-> "none", res |-> "none", wchar |-> FALSE]

Init ==
    /\ delay \in Delays
    /\ client = FALSE /\ link = FALSE /\ writeUuid = FALSE
    /\ expected = FALSE
    /\ isOn = "None" /\ rgb = "None" /\ effect = "None"
    /\ lock = FALSE /\ waiters = <<>>
    /\ timerRef = 0 /\ timers = {}
    /\ task = [t \in Tasks |-> IdleTask]
    /\ tdNew = 0 /\ tdIn = 0 /\ tdExc = 0
    /\ connCalls = 0 /\ connFailed = FALSE /\ nominal = TRUE
    /\ cachedServices = FALSE
    /\ brightness = <<255>>
    /\ log = "none"
    /\ inp = NoCall /\ ret = NoRet /\ wire = <<>>

(* --------------------------- the idle timer --------------------------- *)
\* Variant: the reset does not cancel the handle it replaces.
Cancelled_Kept == timers

\* self._disconnect_timer.cancel(): the referenced handle leaves the loop.
Cancelled == {h \in timers : h.id # timerRef}

\* The handle object call_later returns: an id no scheduled handle has.
FreshId(ts) ==
    CHOOSE i \in 1..MaxHandles :
        /\ i \notin {h.id : h \in ts}
        /\ \A j \in 1..(i - 1) : j \in {h.id : h \in ts}

\* if self._delay is not None and self._delay != 0
Schedules == delay # <<>> /\ delay[1] # 0

\* The idle window in course: the referenced handle is scheduled, not yet
\* due, and was set by a connect or by a command inside such a window.
InWindow == \E h \in timers : h.id = timerRef /\ h.rem > 0 /\ h.win

\* _reset_disconnect_timer; w: the new handle continues the idle window
\* (the call is a connect's, or a command's that came inside the window).
_reset_disconnect_timer(w) ==
    /\ Cardinality(Cancelled) < MaxHandles
    /\ expected' = FALSE
    /\ IF Schedules
       THEN /\ timers' = Cancelled \cup
                    {[id |-> FreshId(Cancelled), rem |-> Max(delay[1], 0),
                      win |-> w]}
            /\ timerRef' = FreshId(Cancelled)
       ELSE /\ timers' = Cancelled
            /\ timerRef' = timerRef

(* ------------------------- the retry wrapper -------------------------- *)
\* self._client and self._client.is_connected
Live == client /\ link

\* The task record of a call that returned (x = "ok") or raised (an error).
Ended(t, r, x) ==
    IF t = Observed THEN [r EXCEPT !.pc = "idle", !.res = x, !.wchar = FALSE]
    ELSE IdleTask

\* Variant: a caller that finds no live connection connects without the
\* lock.
_ensure_connected_Unlocked(t, r, lk) ==
    IF Live
    THEN /\ _reset_disconnect_timer(InWindow)
         /\ task' = [task EXCEPT ![t] =
                        [r EXCEPT !.pc = "write", !.wchar = writeUuid]]
         /\ lock' = lk
         /\ UNCHANGED <<waiters, connCalls>>
    ELSE /\ lock' = TRUE
         /\ task' = [task EXCEPT ![t] = [r EXCEPT !.pc = "conn"]]
         /\ connCalls' = Min(connCalls + 1, MaxCount)
         /\ UNCHANGED <<waiters, expected, timers, timerRef>>

\* Variant: the fast path returns without resetting the timer.
_ensure_connected_NoReset(t, r, lk) ==
    IF Live
    THEN /\ UNCHANGED <<expected, timers, timerRef>>
         /\ task' = [task EXCEPT ![t] =
                        [r EXCEPT !.pc = "write", !.wchar = writeUuid]]
         /\ lock' = lk
         /\ UNCHANGED <<waiters, connCalls>>
    ELSE IF ~lk /\ waiters = <<>>
    THEN /\ lock' = TRUE
         /\ task' = [task EXCEPT ![t] = [r EXCEPT !.pc = "conn"]]
         /\ connCalls' = Min(connCalls + 1, MaxCount)
         /\ UNCHANGED <<waiters, expected, timers, timerRef>>
    ELSE /\ waiters' = Append(waiters, t)
         /\ task' = [task EXCEPT ![t] = [r EXCEPT !.pc = "lock"]]
         /\ lock' = lk
         /\ UNCHANGED <<expected, timers, timerRef, connCalls>>

\* _ensure_connected up to its first suspension, called by task t (whose
\* record becomes r) when the lock's state is lk: the fast path, which goes
\* on into write_gatt_char, or the connect under the lock, or the wait.
_ensure_connected(t, r, lk) ==
    IF Live
    THEN /\ _reset_disconnect_timer(InWindow)
         /\ task' = [task EXCEPT ![t] =
                        [r EXCEPT !.pc = "write", !.wchar = writeUuid]]
         /\ lock' = lk
         /\ UNCHANGED <<waiters, connCalls>>
    ELSE IF ~lk /\ waiters = <<>>
    THEN /\ lock' = TRUE
         /\ task' = [task EXCEPT ![t] = [r EXCEPT !.pc = "conn"]]
         /\ connCalls' = Min(connCalls + 1, MaxCount)
         /\ UNCHANGED <<waiters, expected, timers, timerRef>>
    ELSE /\ waiters' = Append(waiters, t)
         /\ task' = [task EXCEPT ![t] = [r EXCEPT !.pc = "lock"]]
         /\ lock' = lk
         /\ UNCHANGED <<expected, timers, timerRef, connCalls>>

\* Variant: set_effect does not test the name against EFFECT_LIST.
Body_EffectUnchecked(t, r, lk) ==
    IF r.op = "update"
    THEN /\ task' = [task EXCEPT ![t] = Ended(t, r, "ok")]
         /\ lock' = lk
         /\ UNCHANGED <<rgb, effect, waiters, expected, timers, timerRef,
                        connCalls>>
    ELSE /\ rgb' = IF r.op = "set_rgb_color" THEN r.arg ELSE rgb
         /\ effect' = IF r.op = "set_effect" THEN r.arg ELSE effect
         /\ _ensure_connected(t, r, lk)

\* Variant: set_rgb_color does not set _rgb_color before it connects.
Body_ColourLate(t, r, lk) ==
    IF r.op = "update" \/ (r.op = "set_effect" /\ r.arg \notin EFFECT_LIST)
    THEN /\ task' = [task EXCEPT ![t] = Ended(t, r, "ok")]
         /\ lock' = lk
         /\ UNCHANGED <<rgb, effect, waiters, expected, timers, timerRef,
                        connCalls>>
    ELSE /\ rgb' = rgb
         /\ effect' = IF r.op = "set_effect" THEN r.arg ELSE effect
         /\ _ensure_connected(t, r, lk)

\* One invocation of the wrapped function, up to its first suspension.
Body(t, r, lk) ==
    IF r.op = "update" \/ (r.op = "set_effect" /\ r.arg \notin EFFECT_LIST)
    THEN /\ task' = [task EXCEPT ![t] = Ended(t, r, "ok")]
         /\ lock' = lk
         /\ UNCHANGED <<rgb, effect, waiters, expected, timers, timerRef,
                        connCalls>>
    ELSE /\ rgb' = IF r.op = "set_rgb_color" THEN r.arg ELSE rgb
         /\ effect' = IF r.op = "set_effect" THEN r.arg ELSE effect
         /\ _ensure_connected(t, r, lk)

\* Variant: the last attempt is tested as attempt > max_attempts, so the
\* loop ends after the third failure and the wrapper returns None.
retry_LastErrorSwallowed(t, r, e, lk) ==
    IF e = "NotFound"
    THEN /\ task' = [task EXCEPT ![t] = Ended(t, r, e)]
         /\ lock' = lk
         /\ UNCHANGED <<rgb, effect, waiters, expected, timers, timerRef,
                        connCalls>>
    ELSE IF r.att >= DEFAULT_ATTEMPTS - 1
    THEN /\ task' = [task EXCEPT ![t] = Ended(t, r, "ok")]
         /\ lock' = lk
         /\ UNCHANGED <<rgb, effect, waiters, expected, timers, timerRef,
                        connCalls>>
    ELSE IF e = "DBus"
    THEN /\ task' = [task EXCEPT ![t] = [r EXCEPT !.pc = "sleep"]]
         /\ lock' = lk
         /\ UNCHANGED <<rgb, effect, waiters, expected, timers, timerRef,
                        connCalls>>
    ELSE Body(t, [r EXCEPT !.att = r.att + 1], lk)

\* Variant: every retryable error is followed by the backoff sleep.
retry_BackoffForAll(t, r, e, lk) ==
    IF e = "NotFound" \/ r.att >= DEFAULT_ATTEMPTS - 1
    THEN /\ task' = [task EXCEPT ![t] = Ended(t, r, e)]
         /\ lock' = lk
         /\ UNCHANGED <<rgb, effect, waiters, expected, timers, timerRef,
                        connCalls>>
    ELSE /\ task' = [task EXCEPT ![t] = [r EXCEPT !.pc = "sleep"]]
         /\ lock' = lk
         /\ UNCHANGED <<rgb, effect, waiters, expected, timers, timerRef,
                        connCalls>>

\* Variant: BleakNotFoundError has no except clause of its own and is
\* retried as the BleakError it is.
retry_NotFoundRetried(t, r, e, lk) ==
    IF r.att >= DEFAULT_ATTEMPTS - 1
    THEN /\ task' = [task EXCEPT ![t] = Ended(t, r, e)]
         /\ lock' = lk
         /\ UNCHANGED <<rgb, effect, waiters, expected, timers, timerRef,
                        connCalls>>
    ELSE IF e = "DBus"
    THEN /\ task' = [task EXCEPT ![t] = [r EXCEPT !.pc = "sleep"]]
         /\ lock' = lk
         /\ UNCHANGED <<rgb, effect, waiters, expected, timers, timerRef,
                        connCalls>>
    ELSE Body(t, [r EXCEPT !.att = r.att + 1], lk)

\* The except clauses of the wrapper for error e of attempt r.att; r already
\* records the failure.  A retry without backoff runs on into the next
\* invocation without suspending.
retry_bluetooth_connection_error(t, r, e, lk) ==
    IF e = "NotFound" \/ r.att >= DEFAULT_ATTEMPTS - 1
    THEN /\ task' = [task EXCEPT ![t] = Ended(t, r, e)]
         /\ lock' = lk
         /\ UNCHANGED <<rgb, effect, waiters, expected, timers, timerRef,
                        connCalls>>
    ELSE IF e = "DBus"
    THEN /\ task' = [task EXCEPT ![t] = [r EXCEPT !.pc = "sleep"]]
         /\ lock' = lk
         /\ UNCHANGED <<rgb, effect, waiters, expected, timers, timerRef,
                        connCalls>>
    ELSE Body(t, [r EXCEPT !.att = r.att + 1], lk)

\* The record of a call after an invocation of its body raised e.
Failed(t, r, e) ==
    IF t = Observed THEN [r EXCEPT !.err = e, !.fails = r.fails + 1] ELSE r

\* An invocation of the body of t's call raised e.  The observed caller's
\* wrapper acts on it.  For a concurrent caller the attempt counter is not
\* kept: the error ends its call, and what its wrapper does next (raise, or
\* back off and invoke the body again) is its next call, if any.
Raised(t, r, e, lk) ==
    IF t = Observed
    THEN retry_bluetooth_connection_error(t, Failed(t, r, e), e, lk)
    ELSE /\ task' = [task EXCEPT ![t] = IdleTask]
         /\ lock' = lk
         /\ UNCHANGED <<rgb, effect, waiters, expected, timers, timerRef,
                        connCalls>>

(* ------------------------ the disconnect callback --------------------- *)
\* Variant: the test of the flag is inverted.
_disconnected_Inverted == IF expected THEN "warning" ELSE "debug"

\* _disconnected, the callback given to establish_connection: the level of
\* the message it logs.  It assigns nothing.
_disconnected == IF expected THEN "debug" ELSE "warning"

\* The transport runs the callback in the step in which the link goes down.
Dropped == log' = IF link /\ ~link' THEN _disconnected ELSE "none"

\* A step in which no link goes down: the callback does not run.
Quiet == log' = "none"

(* --------------------------- _execute_disconnect ---------------------- *)
\* Variant: the flag is not set before client.disconnect() is awaited.
_execute_disconnect_FlagLate ==
    /\ expected' = expected
    /\ client' = FALSE
    /\ writeUuid' = FALSE
    /\ lock' = Live
    /\ connCalls' = 0
    /\ connFailed' = FALSE

\* The body of _execute_disconnect once the lock is held, up to the await of
\* client.disconnect() (lock kept) or to the end (lock released).
_execute_disconnect ==
    /\ expected' = TRUE
    /\ client' = FALSE
    /\ writeUuid' = FALSE
    /\ lock' = Live
    /\ connCalls' = 0
    /\ connFailed' = FALSE

(* ------------------------------ callers ------------------------------- *)
\* A caller starts a wrapped operation.
Command(t, o, g) ==
    /\ task[t].pc = "idle"
    /\ Body(t, [IdleTask EXCEPT !.op = o, !.arg = g], lock)
    /\ UNCHANGED <<delay, client, link, writeUuid, isOn, tdNew, tdIn,
                   tdExc, connFailed, nominal>>
    /\ UNCHANGED <<cachedServices, encv>>
    /\ Quiet

\* A caller calls stop().
stop(t) ==
    /\ task[t].pc = "idle"
    /\ nominal' = FALSE
    /\ IF ~lock /\ waiters = <<>>
       THEN /\ _execute_disconnect
            /\ task' = [task EXCEPT ![t] =
                  IF Live THEN [IdleTask EXCEPT !.op = "stop", !.pc = "disc"]
                  ELSE Ended(t, [IdleTask EXCEPT !.op = "stop"], "ok")]
            /\ UNCHANGED waiters
       ELSE /\ waiters' = Append(waiters, t)
            /\ task' = [task EXCEPT ![t] =
                           [IdleTask EXCEPT !.op = "stop", !.pc = "lock"]]
            /\ UNCHANGED <<expected, client, writeUuid, lock, connCalls,
                           connFailed>>
    /\ UNCHANGED <<delay, link, isOn, rgb, effect, timerRef, timers, tdNew,
                   tdIn, tdExc>>
    /\ UNCHANGED <<cachedServices, encv>>
    /\ Quiet

\* self._read_uuid is not None: the field is set in __init__ and nowhere else.
_read_uuid == FALSE

\* establish_connection returned a client; hasChar: its services hold the
\* write characteristic.
ConnectOk(t, hasChar) ==
    /\ task[t].pc = "conn"
    /\ client' = TRUE
    /\ link' = TRUE
    /\ writeUuid' = (hasChar \/ writeUuid)
    /\ _reset_disconnect_timer(TRUE)
    /\ lock' = FALSE
    /\ task' = [task EXCEPT ![t] =
                   [@ EXCEPT !.pc = "write", !.wchar = (hasChar \/ writeUuid)]]
    /\ UNCHANGED <<delay, isOn, rgb, effect, waiters, tdNew, tdIn, tdExc,
                   connCalls, connFailed, nominal>>
    /\ cachedServices' = (_read_uuid /\ writeUuid')
    /\ UNCHANGED encv
    /\ Quiet

\* Variant: the connect is awaited after an explicit acquire with no
\* try/finally, so its exception leaves the lock held.
ConnectFail_LockKept(t, e) ==
    /\ task[t].pc = "conn"
    /\ Raised(t, task[t], e, lock)
    /\ connFailed' = TRUE
    /\ nominal' = FALSE
    /\ UNCHANGED <<delay, client, link, writeUuid, isOn, tdNew, tdIn,
                   tdExc>>
    /\ UNCHANGED <<cachedServices, encv>>
    /\ Quiet

\* establish_connection raised e: the lock is released and the wrapper acts.
ConnectFail(t, e) ==
    /\ task[t].pc = "conn"
    /\ Raised(t, task[t], e, FALSE)
    /\ connFailed' = TRUE
    /\ nominal' = FALSE
    /\ UNCHANGED <<delay, client, link, writeUuid, isOn, tdNew, tdIn,
                   tdExc>>
    /\ UNCHANGED <<cachedServices, encv>>
    /\ Quiet

\* write_gatt_char returned: turn_on and turn_off then set _is_on.
WriteOk(t) ==
    /\ task[t].pc = "write"
    /\ task[t].wchar
    /\ isOn' = CASE task[t].op = "turn_on" -> "True"
                 [] task[t].op = "turn_off" -> "False"
                 [] OTHER -> isOn
    /\ task' = [task EXCEPT ![t] = Ended(t, @, "ok")]
    /\ UNCHANGED <<delay, client, link, writeUuid, expected, rgb, effect,
                   loopv, hist>>
    /\ UNCHANGED <<cachedServices, encv>>
    /\ Quiet

\* write_gatt_char raised e (a missing characteristic raises BleakError).
WriteFail(t, e) ==
    /\ task[t].pc = "write"
    /\ e # "NotFound"
    /\ ~task[t].wchar => e = "Bleak"
    /\ Raised(t, task[t], e, lock)
    /\ nominal' = FALSE
    /\ UNCHANGED <<delay, client, link, writeUuid, isOn, tdNew, tdIn,
                   tdExc, connFailed>>
    /\ UNCHANGED <<cachedServices, encv>>
    /\ Quiet

\* asyncio.sleep(BLEAK_BACKOFF_TIME) is over: the next attempt starts.
BackoffDone(t) ==
    /\ task[t].pc = "sleep"
    /\ Body(t, [task[t] EXCEPT !.att = @ + 1], lock)
    /\ UNCHANGED <<delay, client, link, writeUuid, isOn, tdNew, tdIn,
                   tdExc, connFailed, nominal>>
    /\ UNCHANGED <<cachedServices, encv>>
    /\ Quiet

\* client.disconnect() awaited by stop() returned (e = "ok") or raised.
DisconnectDone(t, e, up) ==
    /\ task[t].pc = "disc"
    /\ e # "NotFound"
    /\ link' = IF e = "ok" THEN FALSE ELSE (link /\ up)
    /\ lock' = FALSE
    /\ task' = [task EXCEPT ![t] = Ended(t, @, e)]
    /\ UNCHANGED <<delay, client, writeUuid, expected, isOn, rgb, effect,
                   waiters, timerRef, timers, tdNew, tdIn, tdExc, hist>>
    /\ UNCHANGED <<cachedServices, encv>>
    /\ Dropped

(* ----------------------- the lock's waiting tasks --------------------- *)
\* Variant: a caller that waited for the lock connects without looking at
\* the connection again.
Recheck_Skipped(t) ==
    /\ lock' = TRUE
    /\ task' = [task EXCEPT ![t] = [@ EXCEPT !.pc = "conn"]]
    /\ connCalls' = Min(connCalls + 1, MaxCount)
    /\ UNCHANGED <<expected, timers, timerRef>>

\* The check of _ensure_connected repeated under the lock by a caller that
\* waited for it: return (releasing the lock) and write, or connect.
Recheck(t) ==
    IF Live
    THEN /\ _reset_disconnect_timer(InWindow)
         /\ task' = [task EXCEPT ![t] =
                        [@ EXCEPT !.pc = "write", !.wchar = writeUuid]]
         /\ lock' = FALSE
         /\ UNCHANGED connCalls
    ELSE /\ lock' = TRUE
         /\ task' = [task EXCEPT ![t] = [@ EXCEPT !.pc = "conn"]]
         /\ connCalls' = Min(connCalls + 1, MaxCount)
         /\ UNCHANGED <<expected, timers, timerRef>>

\* The lock is free: its first waiter acquires it and runs on.
Wake ==
    /\ ~lock
    /\ waiters # <<>>
    /\ waiters' = Tail(waiters)
    /\ LET h == Head(waiters) IN
       IF h = TimedTask
       THEN /\ _execute_disconnect
            /\ tdIn' = IF Live THEN tdIn + 1 ELSE tdIn
            /\ UNCHANGED <<task, timers, timerRef>>
       ELSE IF task[h].op = "stop"
       THEN /\ _execute_disconnect
            /\ task' = [task EXCEPT ![h] =
                  IF Live THEN [@ EXCEPT !.pc = "disc"] ELSE Ended(h, @, "ok")]
            /\ UNCHANGED <<tdIn, timers, timerRef>>
       ELSE /\ Recheck(h)
            /\ UNCHANGED <<client, writeUuid, connFailed, tdIn>>
    /\ UNCHANGED <<delay, link, isOn, rgb, effect, tdNew, tdExc, nominal>>
    /\ UNCHANGED <<cachedServices, encv>>
    /\ Quiet

(* ------------------------- the event loop ----------------------------- *)
\* The tasks _disconnect created that have not ended.
Timed == tdNew + tdIn + tdExc + Cardinality({i \in DOMAIN waiters : waiters[i] = TimedTask})

\* A scheduled handle is due: the loop runs _disconnect.
_disconnect(h) ==
    /\ h \in timers
    /\ h.rem = 0
    /\ Timed < MaxTimed
    /\ timers' = timers \ {h}
    /\ timerRef' = 0
    /\ tdNew' = tdNew + 1
    /\ UNCHANGED <<sess, lock, waiters, task, tdIn, tdExc, hist>>
    /\ UNCHANGED <<cachedServices, encv>>
    /\ Quiet

\* An _execute_timed_disconnect task starts: it takes the lock or waits.
_execute_timed_disconnect ==
    /\ tdNew > 0
    /\ tdNew' = tdNew - 1
    /\ IF ~lock /\ waiters = <<>>
       THEN /\ _execute_disconnect
            /\ tdIn' = IF Live THEN tdIn + 1 ELSE tdIn
            /\ UNCHANGED waiters
       ELSE /\ waiters' = Append(waiters, TimedTask)
            /\ UNCHANGED <<expected, client, writeUuid, lock, connCalls,
                           connFailed, tdIn>>
    /\ UNCHANGED <<delay, link, isOn, rgb, effect, timerRef, timers, task,
                   tdExc, nominal>>
    /\ UNCHANGED <<cachedServices, encv>>
    /\ Quiet

\* client.disconnect() awaited by a timed disconnect returned or raised.
TimedDone(e, up) ==
    /\ tdIn > 0
    /\ e # "NotFound"
    /\ tdIn' = tdIn - 1
    /\ link' = IF e = "ok" THEN FALSE ELSE (link /\ up)
    /\ lock' = (e # "ok")
    /\ tdExc' = IF e = "ok" THEN tdExc ELSE tdExc + 1
    /\ nominal' = (nominal /\ e = "ok")
    /\ UNCHANGED <<delay, client, writeUuid, expected, isOn, rgb, effect,
                   waiters, timerRef, timers, task, tdNew, connCalls,
                   connFailed>>
    /\ UNCHANGED <<cachedServices, encv>>
    /\ Dropped

\* The exception of client.disconnect() leaves the lock's block, which
\* releases the lock, and ends the task.
TimedRaise ==
    /\ tdExc > 0
    /\ tdExc' = tdExc - 1
    /\ lock' = FALSE
    /\ UNCHANGED <<sess, waiters, timerRef, timers, task, tdNew, tdIn, hist>>
    /\ UNCHANGED <<cachedServices, encv>>
    /\ Quiet

\* One unit of time passes.
Tick ==
    /\ \E h \in timers : h.rem > 0
    /\ timers' = {[h EXCEPT !.rem = Max(h.rem - 1, 0)] : h \in timers}
    /\ UNCHANGED <<sess, lock, waiters, timerRef, task, tdNew, tdIn, tdExc,
                   connCalls, connFailed, nominal>>
    /\ UNCHANGED <<cachedServices, encv>>
    /\ Quiet

\* The device drops the link.
LinkLoss ==
    /\ link
    /\ link' = FALSE
    /\ nominal' = FALSE
    /\ connCalls' = 0
    /\ connFailed' = FALSE
    /\ UNCHANGED <<delay, client, writeUuid, expected, isOn, rgb, effect,
                   loopv, task>>
    /\ UNCHANGED <<cachedServices, encv>>
    /\ Dropped

(* ------------------------- the packet encoders ------------------------ *)
\* The encoding specification follows one call of set_rgb_color, set_effect,
\* set_brightness_local or normalize_brightness from its arguments to the
\* bytes handed to write_gatt_char.  The call runs alone, so its awaits are
\* not observed: a step is the whole call, retries included.

\* The largest value of a byte, and of a brightness.
MaxByte == 255

\* int(a / d) for d > 0: Python's int() truncates towards zero.
Trunc(a, d) == IF a >= 0 THEN a \div d ELSE -((-a) \div d)

\* Colour arguments: every channel value occurs in every position's range.
Triples == {<<c, MaxByte - c, (c + 128) % (MaxByte + 1)>> : c \in 0..MaxByte}

\* Brightness arguments, in and out of the range of a byte.
BArgs == (0..MaxByte) \cup {-3, -1, MaxByte + 1, 300}

\* The values _brightness and _rgb_color can hold when the call starts
\* (set_brightness_local stores its argument as it is).
PriorBrightness == {<<>>, <<0>>, <<1>>, <<2>>, <<128>>, <<MaxByte>>, <<300>>}
PriorColours == {<<>>, <<255, 128, 1>>}

\* The calls with an explicit brightness, and those that rely on the fields.
RgbCalls ==
    {[op |-> "set_rgb_color", col |-> c, val |-> <<b>>, name |-> "-"] :
        c \in Triples, b \in BArgs}
FieldCalls ==
    {[op |-> "set_rgb_color", col |-> c, val |-> <<>>, name |-> "-"] :
        c \in {<<255, 128, 1>>, <<0, 0, 0>>}}
    \cup {[op |-> "set_brightness_local", col |-> <<>>, val |-> v, name |-> "-"] :
        v \in PriorBrightness \cup {<<-3>>}}
    \cup {[op |-> "normalize_brightness", col |-> <<>>, val |-> v, name |-> "-"] :
        v \in {<<>>} \cup {<<x>> : x \in BArgs}}
EffectCalls ==
    {[op |-> "set_effect", col |-> <<>>, val |-> <<>>, name |-> n] :
        n \in EFFECT_LIST \cup {"bogus"}}

\* A session that is fresh or connected with its timer pending, about to run
\* one call.
InitPkt ==
    /\ delay = <<IdleDelay>>
    /\ \E up \in BOOLEAN :
          /\ client = up /\ link = up /\ writeUuid = up
          /\ timers = IF up THEN {[id |-> 1, rem |-> IdleDelay, win |-> TRUE]}
                      ELSE {}
          /\ timerRef = IF up THEN 1 ELSE 0
          /\ connCalls = IF up THEN 1 ELSE 0
    /\ expected = FALSE
    /\ isOn = "None" /\ effect = "None"
    /\ lock = FALSE /\ waiters = <<>>
    /\ task = [t \in Tasks |-> IdleTask]
    /\ tdNew = 0 /\ tdIn = 0 /\ tdExc = 0
    /\ connFailed = FALSE /\ nominal = TRUE
    /\ cachedServices = FALSE
    /\ log = "none"
    /\ ret = NoRet /\ wire = <<>>
    /\ \/ inp \in RgbCalls /\ brightness = <<MaxByte>> /\ rgb = <<>>
       \/ inp \in EffectCalls /\ brightness = <<MaxByte>> /\ rgb = <<>>
       \/ inp \in FieldCalls /\ brightness \in PriorBrightness
                             /\ rgb \in PriorColours

\* What the wrapped call ends with when its packet goes through _write.
WriteOutcomes == {"ok", "connect_fails", "write_fails"}

\* await self._write(pkt) under the retry wrapper: the write succeeds on some
\* attempt, or every attempt fails in establish_connection, or every attempt
\* fails in write_gatt_char.  Unless no connection could be made, the session
\* ends connected with its timer reset.
_write(pkt, out) ==
    /\ out = "connect_fails" => ~Live
    /\ wire' = IF out = "ok" THEN <<pkt>> ELSE <<>>
    /\ ret' = [st |-> IF out = "ok" THEN "returned" ELSE "BleakError",
               val |-> 0]
    /\ IF out = "connect_fails"
       THEN UNCHANGED <<client, link, writeUuid, expected, timers, timerRef,
                        connCalls>>
       ELSE /\ client' = TRUE /\ link' = TRUE
            /\ writeUuid' = (writeUuid \/ out = "ok")
            /\ connCalls' = IF Live THEN connCalls ELSE 1
            /\ _reset_disconnect_timer(Live => InWindow)

\* The call raised e before it reached _write.
Raises(e) ==
    /\ ret' = [st |-> e, val |-> 0]
    /\ wire' = <<>>
    /\ UNCHANGED <<client, link, writeUuid, expected, timers, timerRef,
                   connCalls>>

\* Variant: the channels are scaled by brightness / 255 in one step, without
\* the rounding to a percentage.
RgbBody_DirectScale(c, b, br, out) ==
    /\ rgb' = c
    /\ IF b = <<>> /\ br = <<>>
       THEN brightness' = <<MaxByte>> /\ Raises("TypeError")
       ELSE /\ brightness' = br
            /\ LET bb == IF b = <<>> THEN br[1] ELSE b[1]
                   scaled == [i \in 1..3 |-> Trunc(c[i] * bb, MaxByte)]
               IN  IF c = <<>> THEN Raises("TypeError")
                   ELSE IF \E i \in 1..3 : scaled[i] \notin 0..MaxByte
                   THEN Raises("ValueError")
                   ELSE _write(<<105, 150, 5, 2>> \o scaled, out)

\* The body of set_rgb_color(c, b) when _brightness is br.
RgbBody(c, b, br, out) ==
    /\ rgb' = c
    /\ IF b = <<>> /\ br = <<>>
       THEN brightness' = <<MaxByte>> /\ Raises("TypeError")
       ELSE /\ brightness' = br
            /\ LET bb == IF b = <<>> THEN br[1] ELSE b[1]
                   brightness_percent == Trunc(bb * 100, MaxByte)
                   scaled == [i \in 1..3 |->
                                 Trunc(c[i] * brightness_percent, 100)]
               IN  IF c = <<>> THEN Raises("TypeError")
                   ELSE IF \E i \in 1..3 : scaled[i] \notin 0..MaxByte
                   THEN Raises("ValueError")
                   ELSE _write(<<105, 150, 5, 2>> \o scaled, out)

\* The parts of the state no encoder touches.
EncFrame ==
    UNCHANGED <<delay, isOn, lock, waiters, task, tdNew, tdIn, tdExc,
                connFailed, nominal, cachedServices, log, inp>>

set_rgb_color(out) ==
    /\ inp.op = "set_rgb_color" /\ ret.st = "none"
    /\ RgbBody(inp.col, inp.val, brightness, out)
    /\ UNCHANGED effect
    /\ EncFrame

set_brightness_local(out) ==
    /\ inp.op = "set_brightness_local" /\ ret.st = "none"
    /\ RgbBody(rgb, inp.val, inp.val, out)
    /\ UNCHANGED effect
    /\ EncFrame

\* Variant: the last byte of the packet is self._effect_speed (0x64).
set_effect_WithSpeed(out) ==
    /\ inp.op = "set_effect" /\ ret.st = "none"
    /\ IF inp.name \notin EFFECT_LIST
       THEN /\ ret' = [st |-> "returned", val |-> 0]
            /\ UNCHANGED <<effect, wire, client, link, writeUuid, expected,
                           timers, timerRef, connCalls>>
       ELSE /\ effect' = inp.name
            /\ _write(<<105, 150, 3, 3, EFFECT_MAP[inp.name], 100>>, out)
    /\ UNCHANGED <<rgb, brightness>>
    /\ EncFrame

set_effect(out) ==
    /\ inp.op = "set_effect" /\ ret.st = "none"
    /\ IF inp.name \notin EFFECT_LIST
       THEN /\ ret' = [st |-> "returned", val |-> 0]
            /\ UNCHANGED <<effect, wire, client, link, writeUuid, expected,
                           timers, timerRef, connCalls>>
       ELSE /\ effect' = inp.name
            /\ _write(<<105, 150, 3, 3, EFFECT_MAP[inp.name], 1>>, out)
    /\ UNCHANGED <<rgb, brightness>>
    /\ EncFrame

normalize_brightness ==
    /\ inp.op = "normalize_brightness" /\ ret.st = "none"
    /\ IF inp.val = <<>> /\ brightness # <<>> /\ brightness[1] <= 1
       THEN /\ ret' = [st |-> "TypeError", val |-> 0]
            /\ UNCHANGED brightness
       ELSE LET new_brightness ==
                    IF inp.val # <<>> THEN inp.val[1]
                    ELSE IF brightness = <<>> THEN MaxByte
                    ELSE brightness[1]
                clamped == Min(Max(new_brightness, 2), MaxByte)
            IN  /\ brightness' = <<clamped>>
                /\ ret' = [st |-> "returned",
                           val |-> Trunc(clamped * 100, MaxByte)]
    /\ UNCHANGED <<rgb, effect, wire, client, link, writeUuid, expected,
                   timers, timerRef, connCalls>>
    /\ EncFrame

(* --------------------------- specifications --------------------------- *)
Outcomes == {"ok"} \cup Errors

\* The await of task t (connect, write or disconnect) is over.
Resume(t) ==
    \/ \E hasChar \in BOOLEAN : ConnectOk(t, hasChar)
    \/ \E e \in Errors : ConnectFail(t, e)
    \/ WriteOk(t)
    \/ \E e \in Errors : WriteFail(t, e)
    \/ \E e \in Outcomes, up \in BOOLEAN : DisconnectDone(t, e, up)

\* A step of the observed caller, whose wrapper may also be backing off.
Step(t) == Resume(t) \/ BackoffDone(t)

Loop ==
    \/ Wake
    \/ \E h \in timers : _disconnect(h)
    \/ _execute_timed_disconnect
    \/ \E e \in Outcomes, up \in BOOLEAN : TimedDone(e, up)
    \/ TimedRaise
    \/ Tick
    \/ LinkLoss

\* The session used by NCallers concurrent tasks that switch the light on
\* and stop the session.
Next ==
    \/ \E t \in Callers : Command(t, "turn_on", "-")
    \/ \E t \in Callers : stop(t)
    \/ \E t \in Callers : Resume(t)
    \/ Loop

Spec == Init /\ [][Next]_vars

\* The session used by the observed caller, which issues every operation.
NextCmd ==
    \/ \E o \in WrappedOps : \E g \in ArgsOf(o) : Command(Observed, o, g)
    \/ stop(Observed)
    \/ Step(Observed)
    \/ Loop

SpecCmd == Init /\ [][NextCmd]_vars

\* Spec with its scheduling: every awaited transport call returns or raises
\* (Resume, TimedDone), and the event loop runs every task that is ready
\* (Wake, _execute_timed_disconnect, TimedRaise).  Nothing obliges a caller
\* to call, time to pass or the link to drop.
Fairness ==
    /\ \A t \in Callers : WF_vars(Resume(t))
    /\ WF_vars(\E e \in Outcomes, up \in BOOLEAN : TimedDone(e, up))
    /\ WF_vars(Wake)
    /\ WF_vars(_execute_timed_disconnect)
    /\ WF_vars(TimedRaise)

SpecFair == Init /\ [][Next]_vars /\ Fairness

\* One call of an encoder on a session that is fresh or connected.
NextPkt ==
    \/ \E out \in WriteOutcomes : set_rgb_color(out)
    \/ \E out \in WriteOutcomes : set_brightness_local(out)
    \/ \E out \in WriteOutcomes : set_effect(out)
    \/ normalize_brightness

SpecPkt == InitPkt /\ [][NextPkt]_vars

(* ======================================================================= *)
(*                               properties                                *)
(* ======================================================================= *)
\* The tasks awaiting establish_connection, and the number of tasks awaiting
\* client.disconnect() (or leaving the lock's block after it raised).
Connecting == {t \in Tasks : task[t].pc = "conn"}
Disconnecting == Cardinality({t \in Tasks : task[t].pc = "disc"}) + tdIn + tdExc

C2_MutualExclusion ==
    /\ Cardinality(Connecting) + Disconnecting <= 1
    /\ Cardinality(Connecting) + Disconnecting = 1 => lock

\* A connect is in flight while a stop() and a timed disconnect wait.
C2_Witness ==
    /\ Connecting # {}
    /\ \E i \in DOMAIN waiters : waiters[i] = TimedTask
    /\ \E i \in DOMAIN waiters :
           waiters[i] \in Callers /\ task[waiters[i]].op = "stop"

(* C3: a wrapped operation invokes its body at most DEFAULT_ATTEMPTS times; *)
(* an invocation that succeeds ends the call with its result; when all      *)
(* DEFAULT_ATTEMPTS invocations raised a retryable error, the call raises   *)
(* the error of the last one.                                               *)
C3_RetryBound ==
    LET r == task[Observed] IN
    r.op \in WrappedOps =>
        /\ r.att <= DEFAULT_ATTEMPTS - 1
        /\ r.fails <= DEFAULT_ATTEMPTS
        /\ r.pc \in {"lock", "conn", "write"} => r.fails = r.att
        /\ r.pc = "sleep" => r.fails = r.att + 1
        /\ (r.pc = "idle" /\ r.res = "ok") => r.fails = r.att
        /\ (r.pc = "idle" /\ r.res # "ok") =>
               r.res \in Errors /\ r.res = r.err /\ r.fails = r.att + 1
        /\ (r.pc = "idle" /\ r.res \in {"DBus", "Bleak"}) =>
               r.fails = DEFAULT_ATTEMPTS

\* A call whose three invocations raised, a backoff error last.
C3_Witness ==
    LET r == task[Observed] IN
    /\ r.op = "turn_off" /\ r.pc = "idle"
    /\ r.fails = DEFAULT_ATTEMPTS /\ r.res = "DBus"

(* C4: the device-not-found error of any invocation ends the call with that *)
(* error at once: the body is not invoked again.                            *)
C4_NotFoundAborts ==
    LET r == task[Observed] IN
    r.err = "NotFound" =>
        r.pc = "idle" /\ r.res = "NotFound" /\ r.fails = r.att + 1

\* The device was not found on the second invocation.
C4_Witness ==
    LET r == task[Observed] IN
    r.op \in WrappedOps /\ r.res = "NotFound" /\ r.att = 1

(* C5, as claimed: _write_uuid is non-null if and only if _client is set    *)
(* and reports is_connected.                                                *)
C5_WriteUuidIffLive == writeUuid <=> Live

(* C6, as claimed: an idle-disconnect timer is pending only while the       *)
(* session holds a live connection (stated for a positive delay, the case   *)
(* in which the timer is meant to exist at all).                            *)
C6_TimerOnlyWhileLive ==
    (delay # <<>> /\ delay[1] > 0) => (timers # {} => Live)

(* C7, as claimed: at most one idle-disconnect timer is pending, and one is *)
(* pending only when the configured delay is positive.                      *)
C7_OneTimerPositiveDelay ==
    /\ Cardinality(timers) <= 1
    /\ timers # {} => (delay # <<>> /\ delay[1] > 0)

(* C7, amended: at most one idle-disconnect timer is pending, and one is    *)
(* pending only when the configured delay is neither None nor 0.            *)
C7_OneTimerNonZeroDelay ==
    /\ Cardinality(timers) <= 1
    /\ timers # {} => (delay # <<>> /\ delay[1] # 0)

\* Both concurrent callers have reset the timer of one connection and one
\* handle is pending; the delay is negative.
C7_Witness ==
    /\ \A t \in Callers : task[t].pc = "write"
    /\ connCalls = 1 /\ nominal /\ Live
    /\ Cardinality(timers) = 1
    /\ delay = <<-1>>

(* C8, as claimed: with a positive delay D and nothing but commands and the *)
(* timer at work, a disconnect of the timer reaches the transport only when *)
(* the idle window has ended: D after the connect, or D after the command   *)
(* that came inside the window.                                             *)
C8_DisconnectAfterWindow ==
    (nominal /\ delay # <<>> /\ delay[1] > 0 /\ tdIn > 0) =>
        \A h \in timers : ~(h.win /\ h.rem > 0)

(* C9, as claimed: stop() and the timed disconnect end normally, also when  *)
(* client.disconnect() raises.                                              *)
C9_TeardownNeverRaises ==
    LET r == task[Observed] IN
    /\ (r.op = "stop" /\ r.pc = "idle") => r.res = "ok"
    /\ tdExc = 0

(* C10, as claimed: a set_rgb_color, turn_on or turn_off that raised leaves *)
(* the new value in the cache.                                              *)
C10_CacheSetBeforeWrite ==
    LET r == task[Observed] IN
    (r.pc = "idle" /\ r.res \in Errors) =>
        /\ r.op = "set_rgb_color" => rgb = r.arg
        /\ r.op = "turn_on" => isOn = "True"
        /\ r.op = "turn_off" => isOn = "False"

\* _is_on changes in a step only if the step is the successful end of the
\* write of a turn_on or turn_off.
IsOnSetAfterWrite ==
    isOn' # isOn =>
        /\ task[Observed].pc = "write"
        /\ task'[Observed].pc = "idle" /\ task'[Observed].res = "ok"
        /\ \/ task[Observed].op = "turn_on" /\ isOn' = "True"
           \/ task[Observed].op = "turn_off" /\ isOn' = "False"

(* C10, amended: set_rgb_color sets _rgb_color before the write, so the new *)
(* colour stays in the cache also when the call raises; turn_on and         *)
(* turn_off set _is_on only after the write succeeded, so a call that       *)
(* raises leaves _is_on as it was.                                          *)
C10_ColourBeforePowerAfter ==
    /\ [](task[Observed].op = "set_rgb_color" => rgb = task[Observed].arg)
    /\ [][IsOnSetAfterWrite]_vars

\* A turn_on that exhausted its attempts after a turn_off had succeeded.
C10_Witness ==
    LET r == task[Observed] IN
    /\ r.op = "turn_on" /\ r.pc = "idle"
    /\ r.res \in Errors /\ r.fails = DEFAULT_ATTEMPTS
    /\ isOn = "False"

\* A step in which the observed caller's set_effect of an unknown name runs:
\* the call has returned None and nothing of the session has changed.
UnknownEffectIsNoOp ==
    LET r == task'[Observed] IN
    (r # task[Observed] /\ r.op = "set_effect" /\ r.arg \notin EFFECT_LIST) =>
        /\ r.pc = "idle" /\ r.res = "ok" /\ r.att = 0 /\ r.fails = 0
        /\ UNCHANGED <<sess, loopv, hist, cachedServices, brightness>>

(* C11: set_effect of a name outside EFFECT_LIST returns without raising,   *)
(* connects nothing, writes nothing, leaves the idle timer and every field  *)
(* of the session as they were; so a set_effect that is connecting or       *)
(* writing carries a name of the table, which is also the value of _effect. *)
C11_UnknownEffectRejected ==
    /\ [][UnknownEffectIsNoOp]_vars
    /\ [](LET r == task[Observed] IN
          (r.op = "set_effect" /\ r.pc # "idle") =>
              r.arg \in EFFECT_LIST /\ effect = r.arg)

\* An unknown name was rejected while the session was connected, its timer
\* pending and a known effect cached.
C11_Witness ==
    LET r == task[Observed] IN
    /\ r.op = "set_effect" /\ r.arg \notin EFFECT_LIST
    /\ r.pc = "idle" /\ r.res = "ok"
    /\ Live /\ timers # {} /\ effect \in EFFECT_LIST

(* C12: EFFECT_MAP maps its 20 names one-to-one onto the codes 0x00..0x0a   *)
(* and 0x0c..0x14; a set_effect of one of these names that returns has      *)
(* written exactly one packet, 69 96 03 03 <code of the name> 01, and has   *)
(* set _effect to the name.                                                 *)
C12_EffectPacket ==
    /\ Cardinality(EFFECT_LIST) = 20
    /\ {EFFECT_MAP[n] : n \in EFFECT_LIST} = (0..10) \cup (12..20)
    /\ (inp.op = "set_effect" /\ inp.name \in EFFECT_LIST
            /\ ret.st = "returned") =>
           /\ Len(wire) = 1 /\ Len(wire[1]) = 6
           /\ SubSeq(wire[1], 1, 4) = <<105, 150, 3, 3>>
           /\ wire[1][5] = EFFECT_MAP[inp.name]
           /\ wire[1][6] = 1
           /\ effect = inp.name

\* set_effect("colorstrobe") has returned: code 0x0c is on the wire.
C12_Witness ==
    /\ inp.op = "set_effect" /\ inp.name = "colorstrobe"
    /\ ret.st = "returned"
    /\ wire = << <<105, 150, 3, 3, 12, 1>> >>
    /\ effect = "colorstrobe"

\* p is floor(b * 100 / 255), and v is floor(c * p / 100).
IsPercent(p, b) == p * MaxByte <= b * 100 /\ b * 100 < (p + 1) * MaxByte
IsScaled(v, c, p) == v * 100 <= c * p /\ c * p < (v + 1) * 100

(* C13: set_rgb_color(rgb, b) with b and the channels in 0..255 raises no   *)
(* error of its own, and when it returns it has written one packet          *)
(* 69 96 05 02 R G B in which each byte is in 0..255 and equals             *)
(* floor(channel * floor(b*100/255) / 100): all 0 for b = 0, the channels   *)
(* themselves for b = 255.                                                  *)
C13_RgbScaling ==
    (inp.op = "set_rgb_color" /\ inp.val # <<>> /\ inp.val[1] \in 0..MaxByte) =>
        /\ ret.st \in {"none", "returned", "BleakError"}
        /\ ret.st = "returned" =>
              /\ Len(wire) = 1 /\ Len(wire[1]) = 7
              /\ SubSeq(wire[1], 1, 4) = <<105, 150, 5, 2>>
              /\ \A i \in 1..3 :
                    /\ wire[1][4 + i] \in 0..MaxByte
                    /\ \E p \in 0..100 :
                          /\ IsPercent(p, inp.val[1])
                          /\ IsScaled(wire[1][4 + i], inp.col[i], p)
                    /\ inp.val[1] = 0 => wire[1][4 + i] = 0
                    /\ inp.val[1] = MaxByte => wire[1][4 + i] = inp.col[i]

\* set_rgb_color((200, 55, 72), 128) has returned: 50 percent of each channel,
\* rounded down.
C13_Witness ==
    /\ inp.op = "set_rgb_color"
    /\ inp.col = <<200, 55, 72>> /\ inp.val = <<128>>
    /\ ret.st = "returned"
    /\ wire = << <<105, 150, 5, 2, 100, 27, 36>> >>

(* C14, as claimed: normalize_brightness(x) returns for every x, leaves     *)
(* _brightness in 2..255 (255 for x = None without prior brightness, 2 for  *)
(* x < 2, 255 for x > 255, x otherwise) and returns                         *)
(* floor(_brightness * 100 / 255).                                          *)
C14_NormalizeBrightness ==
    (inp.op = "normalize_brightness" /\ ret.st # "none") =>
        /\ ret.st = "returned"
        /\ brightness # <<>> /\ brightness[1] \in 2..MaxByte
        /\ IsPercent(ret.val, brightness[1])
        /\ inp.val # <<>> =>
              brightness[1] = IF inp.val[1] < 2 THEN 2
                              ELSE IF inp.val[1] > MaxByte THEN MaxByte
                              ELSE inp.val[1]

\* A step in which the link goes down runs the callback, which logs by the
\* flag and assigns no field; no other step logs.
CallbackOnlyLogs ==
    IF link /\ ~link'
    THEN /\ log' = IF expected THEN "debug" ELSE "warning"
         /\ UNCHANGED <<isOn, rgb, effect, brightness, expected>>
    ELSE log' = "none"

(* C15: _disconnected changes no cached lighting field, logs a warning      *)
(* exactly when _expected_disconnect is false and a debug message exactly   *)
(* when it is true.                                                         *)
C15_CallbackOnlyLogs ==
    /\ [][CallbackOnlyLogs]_vars
    /\ [](log = "warning" => ~expected)
    /\ [](log = "debug" => expected)

\* The link was lost unexpectedly while the session had a light state cached:
\* the warning is logged, the cache is as it was.
C15_Witness ==
    /\ log = "warning"
    /\ isOn = "True" /\ rgb = "red" /\ effect = "colorjump"

\* A step that ends an await of client.disconnect() and takes the link down
\* logs no warning.
TeardownDropIsExpected ==
    (Disconnecting > 0 /\ link /\ ~link') => (expected /\ log' = "debug")

(* C16: while stop() or the timed disconnect awaits client.disconnect(),    *)
(* the flag is set and _client and _write_uuid are cleared, whatever        *)
(* commands run concurrently; the link drop of that disconnect finds the    *)
(* flag set and is logged at debug level, never as a warning.               *)
C16_TeardownExpected ==
    /\ [](Disconnecting > 0 => (expected /\ ~client /\ ~writeUuid))
    /\ [][TeardownDropIsExpected]_vars

\* The disconnect of a teardown has just taken the link down while a command
\* was waiting for the lock.
C16_Witness ==
    /\ log = "debug" /\ ~link /\ ~client
    /\ \E t \in Callers : task[t].pc = "lock" /\ task[t].op = "turn_on"

(* C17, as claimed: once a connect has succeeded, _cached_services holds    *)
(* the services of the connection if the write characteristic was resolved  *)
(* from them, and is None if it was not.                                    *)
C17_ServiceCache ==
    (nominal /\ connCalls >= 1 /\ Connecting = {} /\ Live) =>
        (cachedServices <=> writeUuid)

\* A step of caller t through _ensure_connected: it connects if and only if
\* it finds no live connection once it may proceed; if it finds one it only
\* resets the timer; a connect that returns leaves a live connection.
EnsureStep(t) ==
    LET a == task[t].pc
        b == task'[t].pc
    IN
    /\ (task'[t].op = "turn_on" /\ a \in {"idle", "lock"}
           /\ b \in {"conn", "write"}) =>
          /\ b = "conn" <=> ~Live
          /\ b = "conn" =>
                /\ lock'
                /\ connCalls' = Min(connCalls + 1, MaxCount)
                /\ UNCHANGED <<client, link, expected, timers, timerRef>>
          /\ b = "write" =>
                /\ UNCHANGED <<client, link, connCalls>>
                /\ ~expected'
                /\ Schedules =>
                      \E h \in timers' :
                          h.id = timerRef' /\ h.rem = Max(delay[1], 0)
    /\ (task'[t].op = "turn_on" /\ a = "idle" /\ b = "lock") =>
          ~Live /\ (lock \/ waiters # <<>>)
    /\ (a = "conn" /\ b = "write") => client' /\ link'

(* C18: _ensure_connected calls establish_connection if and only if, when   *)
(* it holds the lock, _client is None or not connected; with a live _client *)
(* it makes no connect call and resets the idle timer; when it returns,     *)
(* _client is a live connection.                                            *)
C18_ConnectIffNotLive == [][\A t \in Callers : EnsureStep(t)]_vars

\* Both callers are through _ensure_connected on one connect call, and the
\* timer they reset is pending with its full delay.
C18_Witness ==
    /\ \A t \in Callers : task[t].pc = "write"
    /\ connCalls = 1 /\ Live
    /\ delay = <<IdleDelay>>
    /\ \E h \in timers : h.id = timerRef /\ h.rem = IdleDelay

\* A step of the observed caller's wrapper: what follows a failed attempt,
\* and what precedes and follows a sleep.
BackoffStep ==
    LET a == task[Observed]
        b == task'[Observed]
    IN
    /\ b.fails = a.fails + 1 =>
          IF b.err = "DBus" /\ a.att < DEFAULT_ATTEMPTS - 1
          THEN b.pc = "sleep" /\ b.att = a.att
          ELSE IF b.err = "Bleak" /\ a.att < DEFAULT_ATTEMPTS - 1
          THEN b.pc \in {"lock", "conn", "write"} /\ b.att = a.att + 1
          ELSE b.pc = "idle" /\ b.res = b.err
    /\ (b.pc = "sleep" /\ a.pc # "sleep") =>
          b.fails = a.fails + 1 /\ b.err = "DBus"
    /\ (a.pc = "sleep" /\ b # a) =>
          /\ b.pc \in {"lock", "conn", "write"}
          /\ b.att = a.att + 1 /\ b.fails = a.fails

(* C19: a non-final attempt that fails with BleakDBusError is followed by   *)
(* one sleep and then the next attempt; a non-final attempt that fails with *)
(* another retryable error is followed by the next attempt at once; the     *)
(* final attempt and a successful attempt are followed by no sleep.         *)
C19_BackoffOnlyForDBus == [][BackoffStep]_vars

\* The wrapper sleeps after its second attempt failed with BleakDBusError.
C19_Witness ==
    LET r == task[Observed] IN
    r.pc = "sleep" /\ r.att = 1 /\ r.fails = 2 /\ r.err = "DBus"

\* A step in which establish_connection or client.disconnect() raises or
\* returns inside the lock: the lock is free after it unless the exception
\* is still on its way out of the block, and a failed connect assigns
\* neither _client nor _write_uuid.
LeavesLock ==
    /\ \A t \in Callers :
          /\ (task[t].pc = "conn" /\ task'[t].pc \notin {"conn", "write"}) =>
                ~lock' /\ ~Live' /\ UNCHANGED <<client, link, writeUuid>>
          /\ (task[t].pc = "disc" /\ task'[t].pc # "disc") => ~lock'
    /\ tdExc' < tdExc => ~lock'

(* C20: the lock is held only while a task awaits establish_connection or   *)
(* client.disconnect() inside it; when either raises the lock is released   *)
(* and a failed connect leaves _client as it was, not live; and, every      *)
(* transport call returning or raising, every call of a caller (command or  *)
(* stop(), waiting for the lock or not) completes, and so does every        *)
(* idle-timer disconnect.                                                   *)
C20_LockNeverLeftHeld ==
    /\ [](lock => (Connecting # {} \/ Disconnecting > 0))
    /\ [][LeavesLock]_vars
    /\ \A t \in Callers : (task[t].pc # "idle") ~> (task[t].pc = "idle")
    /\ []<>(Timed < MaxTimed)

\* A connect has failed while another task waits for the lock, which is free.
C20_Witness ==
    /\ connFailed /\ ~lock /\ ~client
    /\ waiters # <<>>

====
